---- MODULE Spec2Model ----
\* A model of flag::FlagSet (src/flag.h): the registry built by Var, the
\* token-scanning loop of Parse, and the per-type value converters.
\*
\* A token is a sequence of one-character strings, so that the code's
\* character tests (s[0] != '-', s[i] == '=') are modelled as written.
\* Parse is modelled loop iteration by loop iteration: ParseCall is the
\* function entry (lines 78-87), ScanStep one iteration of the flag loop
\* (lines 89-178), ScanDone its exit on argc == 0, SlurpStep one iteration
\* of the positional loop (lines 181-185) and ParseReturn line 187.
EXTENDS Integers, Sequences, FiniteSets, TLC

VARIABLES
    flags,   \* FlagSet::flags : name -> Flag
    parsed,  \* FlagSet::parsed
    args,    \* FlagSet::args
    store,   \* the caller-owned variables the flags are bound to
    argv,    \* the vector handed to the running (or last) Parse call
    argc,    \* Parse's local count of tokens still to be read
    pos,     \* Parse's argv cursor, as a 1-based index into argv
    pc,      \* "idle" | "scan" | "slurp" | "crashed"
    err,     \* the value returned by the last Parse call
    cur,     \* locals of the last flag-loop iteration, and its token's index
    store0,  \* the caller's variables when the current Parse call began
    args0,   \* FlagSet::args when the current Parse call began
    nVar,    \* number of Var calls made
    nVar0,   \* number of Var calls made when the current Parse call began
    latest,  \* name -> the variable of the most recent Var call for it
    nParse   \* number of Parse calls made

vars == <<flags, parsed, args, store, argv, argc, pos, pc, err, cur,
          store0, args0, nVar, nVar0, latest, nParse>>

----------------------------------------------------------------------------
\* Bounds of the model.

\* Var calls per run.
MaxVarCalls == 2
\* Parse calls per run, where a FlagSet is parsed again.
MaxParses == 2
\* Tokens after the program name in an argument vector.
MaxArgs == 4
\* Tokens after the program name, where the converters are exercised.
MaxConvArgs == 2
\* The largest whole part a modelled float or double holds.
MaxWhole == 100000
\* Tokens after the program name, where the token syntax is exercised.
MaxSyntaxArgs == 2
MaxBoolArgs == 2
MaxAgainArgs == 2
\* Slots past the end of argv that can still be read without a fault.
MaxOverrun == 2

----------------------------------------------------------------------------
\* Characters and words.

Digits == <<"0", "1", "2", "3", "4", "5", "6", "7", "8", "9">>

IsDigit(c) == \E k \in 1..10 : Digits[k] = c

DigitVal(c) == (CHOOSE k \in 1..10 : Digits[k] = c) - 1

\* s without its first n characters (string_view::remove_prefix).
RemovePrefix(s, n) == SubSeq(s, n + 1, Len(s))

\* s without its last n characters (string_view::remove_suffix).
RemoveSuffix(s, n) == SubSeq(s, 1, Len(s) - n)

W_true == <<"t", "r", "u", "e">>
W_t == <<"t">>
W_yes == <<"y", "e", "s">>
W_y == <<"y">>
W_false == <<"f", "a", "l", "s", "e">>
W_f == <<"f">>
W_no == <<"n", "o">>
W_n == <<"n">>
W_help == <<"h", "e", "l", "p">>
W_h == <<"h">>

----------------------------------------------------------------------------
\* The caller-owned variables and their C++ types.

VarIds == {"b", "i", "f", "d", "s", "oi", "ob", "od"}

\* The type of each variable: the base type and whether it is std::optional.
TypeOf(v) ==
    CASE v = "b"  -> [base |-> "bool",   opt |-> FALSE]
      [] v = "i"  -> [base |-> "int",    opt |-> FALSE]
      [] v = "f"  -> [base |-> "float",  opt |-> FALSE]
      [] v = "d"  -> [base |-> "double", opt |-> FALSE]
      [] v = "s"  -> [base |-> "string", opt |-> FALSE]
      [] v = "oi" -> [base |-> "int",    opt |-> TRUE]
      [] v = "ob" -> [base |-> "bool",   opt |-> TRUE]
      [] v = "od" -> [base |-> "double", opt |-> TRUE]

\* T{} : the value-initialised temporary of MakeOptionalSetFn (line 265).
\* A float or double is held in hundredths; an optional is a sequence of
\* length 0 (empty) or 1 (engaged).
ValueInit(base) ==
    CASE base = "bool"   -> FALSE
      [] base = "string" -> <<>>
      [] OTHER           -> 0

\* The range of int.
IntMax == 2147483647
IntMin == (-IntMax) - 1

\* The first index at or after i of s that holds no digit.
RECURSIVE DigitEnd(_, _)
DigitEnd(s, i) ==
    IF i <= Len(s) /\ IsDigit(s[i]) THEN DigitEnd(s, i + 1) ELSE i

\* The value of the digits s[i..j-1] with the given sign, or overflow when
\* it leaves the range of int.
RECURSIVE Accumulate(_, _, _, _, _)
Accumulate(s, i, j, neg, acc) ==
    IF i >= j THEN [overflow |-> FALSE, val |-> acc]
    ELSE LET d == DigitVal(s[i])
             fits == IF neg
                     THEN acc >= (IF d = 0 THEN -(IntMax \div 10)
                                  ELSE -(((IntMax - d) + 1) \div 10))
                     ELSE acc <= (IntMax - d) \div 10
         IN IF ~fits THEN [overflow |-> TRUE, val |-> acc]
            ELSE Accumulate(s, i + 1, j, neg,
                            IF neg THEN acc * 10 - d ELSE acc * 10 + d)

\* std::from_chars(first, last, int&) in base 10: an optional minus and the
\* longest run of digits that follows; the position where the run stops is
\* returned by from_chars in ptr.
FromChars(s, old) ==
    LET neg == Len(s) >= 1 /\ s[1] = "-"
        i0  == IF neg THEN 2 ELSE 1
        i1  == DigitEnd(s, i0)
        r   == Accumulate(s, i0, i1, neg, 0)
    IN IF i1 = i0 THEN [ec |-> "invalid_argument", val |-> old, ptr |-> 1]
       ELSE IF r.overflow
            THEN [ec |-> "result_out_of_range", val |-> old, ptr |-> i1]
            ELSE [ec |-> "ok", val |-> r.val, ptr |-> i1]

\* MakeSetFn(int&): only ec is looked at, ptr is dropped.
SetInt(old, s) ==
    LET r == FromChars(s, old)
    IN IF r.ec = "invalid_argument"
       THEN [fail |-> TRUE, what |-> "number is not an integer", val |-> r.val]
       ELSE IF r.ec = "result_out_of_range"
            THEN [fail |-> TRUE, what |-> "number is out of range", val |-> r.val]
            ELSE [fail |-> FALSE, what |-> "", val |-> r.val]

\* The digits s[i..j-1] as a number; a whole part beyond MaxWhole is held
\* as MaxWhole (the model keeps no larger floating-point magnitude).
RECURSIVE DigitsValue(_, _, _, _)
DigitsValue(s, i, j, acc) ==
    IF i >= j THEN acc
    ELSE IF acc * 10 + DigitVal(s[i]) >= MaxWhole THEN MaxWhole
    ELSE DigitsValue(s, i + 1, j, acc * 10 + DigitVal(s[i]))

\* Up to two fraction digits s[i..j-1], in hundredths.
Hundredths(s, i, j) ==
    (IF i < j THEN 10 * DigitVal(s[i]) ELSE 0)
    + (IF i + 1 < j THEN DigitVal(s[i + 1]) ELSE 0)

\* std::istream::operator>>(float&) on a stream holding s. An empty stream
\* fails in the sentry and stores nothing. Otherwise num_get scans an
\* optional sign, digits, a point and digits, and stops at the first other
\* character; a field with no digit fails and stores 0. (The tokens of the
\* model hold no white space and no exponent part.)
StreamExtract(s, old) ==
    IF s = <<>> THEN [failbit |-> TRUE, val |-> old]
    ELSE LET signed == s[1] \in {"+", "-"}
             i0 == IF signed THEN 2 ELSE 1
             i1 == DigitEnd(s, i0)
             point == i1 <= Len(s) /\ s[i1] = "."
             i2 == IF point THEN DigitEnd(s, i1 + 1) ELSE i1
             nDigits == (i1 - i0) + (IF point THEN i2 - (i1 + 1) ELSE 0)
             mag == 100 * DigitsValue(s, i0, i1, 0)
                    + (IF point THEN Hundredths(s, i1 + 1, i2) ELSE 0)
         IN IF nDigits = 0 THEN [failbit |-> TRUE, val |-> 0]
            ELSE [failbit |-> FALSE,
                  val |-> IF signed /\ s[1] = "-" THEN -mag ELSE mag]

\* MakeSetFn(float&).
SetFloat(old, s) ==
    LET r == StreamExtract(s, old)
    IN IF r.failbit
       THEN [fail |-> TRUE, what |-> "number is not a float", val |-> r.val]
       ELSE [fail |-> FALSE, what |-> "", val |-> r.val]

\* MakeSetFn(double&).
SetDouble(old, s) ==
    LET r == StreamExtract(s, old)
    IN IF r.failbit
       THEN [fail |-> TRUE, what |-> "number is not a double", val |-> r.val]
       ELSE [fail |-> FALSE, what |-> "", val |-> r.val]

\* MakeSetFn(std::string&).
SetString(old, s) == [fail |-> FALSE, what |-> "", val |-> s]

\* The array without its last two words.
trueValues_short == {W_true, W_t}

trueValues == {W_true, W_t, W_yes, W_y}
\* The array has five slots and four initialisers: the fifth is empty.
falseValues == {W_false, W_f, W_no, W_n, <<>>}

\* MakeSetFn(bool&).
SetBool(old, s) ==
    IF s = <<>> THEN [fail |-> FALSE, what |-> "", val |-> TRUE]
    ELSE IF s \in trueValues THEN [fail |-> FALSE, what |-> "", val |-> TRUE]
    ELSE IF s \in falseValues THEN [fail |-> FALSE, what |-> "", val |-> FALSE]
    ELSE [fail |-> TRUE, what |-> "Unknown boolean value", val |-> old]

\* MakeSetFn<T>(T&) applied to the token s, the variable holding old.
MakeSetFn(base, old, s) ==
    CASE base = "bool"   -> SetBool(old, s)
      [] base = "int"    -> SetInt(old, s)
      [] base = "float"  -> SetFloat(old, s)
      [] base = "double" -> SetDouble(old, s)
      [] base = "string" -> SetString(old, s)

\* MakeOptionalSetFn converting in place: the converter runs on what the
\* optional holds and the result is stored whatever the converter reports.
MakeOptionalSetFn_inPlace(base, old, s) ==
    LET r == MakeSetFn(base, IF old = <<>> THEN ValueInit(base) ELSE old[1], s)
    IN [fail |-> r.fail, what |-> r.what, val |-> <<r.val>>]

\* MakeOptionalSetFn<T>(std::optional<T>&): convert into a temporary and
\* commit it only when the conversion reports no error.
MakeOptionalSetFn(base, old, s) ==
    LET r == MakeSetFn(base, ValueInit(base), s)
    IN IF r.fail THEN [fail |-> TRUE, what |-> r.what, val |-> old]
       ELSE [fail |-> FALSE, what |-> "", val |-> <<r.val>>]

\* Flag::setFn of a flag bound to variable v, applied to the token s.
SetFn(v, old, s) ==
    IF TypeOf(v).opt THEN MakeOptionalSetFn(TypeOf(v).base, old, s)
    ELSE MakeSetFn(TypeOf(v).base, old, s)

----------------------------------------------------------------------------
\* Errors (class Error): a type and a message. The message is kept as the
\* fixed text and the pieces streamed into it.

Error(type, text, name, value, what) ==
    [type |-> type, text |-> text, name |-> name, value |-> value, what |-> what]

\* std::optional<Error>{} : Parse returned no error.
NoError == Error("None", "", <<>>, <<>>, "")

\* No Parse call has returned yet, or one is running.
NoResult == Error("NoResult", "", <<>>, <<>>, "")

\* The error of line 82 with another type.
ErrNumArgs_help == Error("Help", "At least 1 argument is needed.", <<>>, <<>>, "")

ErrNumArgs == Error("NumArgs", "At least 1 argument is needed.", <<>>, <<>>, "")

ErrBadSyntax(s) == Error("BadSyntax", "Bad flag syntax: ", s, <<>>, "")

ErrHelp == Error("Help", "", <<>>, <<>>, "")

ErrUndefinedFlag(name) ==
    Error("UndefinedFlag", "Flag provided but not defined: ", name, <<>>, "")

ErrMissingValue(name) ==
    Error("MissingValue", "Flag is missing a value: ", name, <<>>, "")

ErrBadBoolValue(name, value, what) ==
    Error("BadValue", "Bad boolean value ", name, value, what)

ErrBadBoolFlag(name, what) ==
    Error("BadValue", "Bad boolean flag ", name, <<>>, what)

ErrBadValue(name, value, what) ==
    Error("BadValue", "Bad value ", name, value, what)

----------------------------------------------------------------------------
\* Registration.

\* FlagSet::Var picks the converter and the boolean marker by the type of
\* the variable: the four overloads of lines 276-298. (The usage text is
\* stored and never read by Parse; it is left out.)
MakeFlag(v) == [var |-> v, isBool |-> TypeOf(v).base = "bool"]

\* std::unordered_map::insert: the pair is added only when the key is absent.
MapInsert(m, name, flag) ==
    IF name \in DOMAIN m THEN m
    ELSE [n \in DOMAIN m \cup {name} |-> IF n = name THEN flag ELSE m[n]]

----------------------------------------------------------------------------
\* The pieces of one iteration of the flag loop.

\* Lines 91-94: the token ends flag scanning.
IsPositional(s) == Len(s) < 2 \/ s[1] # "-"

\* Lines 96-98: the number of leading minuses that are stripped.
NumMinuses(s) == IF s[2] = "-" THEN 2 ELSE 1

\* Lines 97-104: the token is "--".
IsTerminator(s) == s[2] = "-" /\ Len(s) = 2

\* Line 110 with the test for a third minus left out.
IsBadSyntax_noMinus(s) == s[1] = "="

\* Line 110, on the token with its minuses removed.
IsBadSyntax(s) == s[1] = "-" \/ s[1] = "="

\* Lines 117-127: the loop over i = 1 .. s.size()-1 (0-based), with s, value
\* and hasValue as the loop updates them; s is cut at an "=" when one is met,
\* and the loop test reads the size of s as cut.
RECURSIVE SplitLoop(_, _, _, _)
SplitLoop(s, i, value, hasValue) ==
    IF ~(i < Len(s)) THEN [name |-> s, value |-> value, hasValue |-> hasValue]
    ELSE IF s[i + 1] = "="
         THEN SplitLoop(RemoveSuffix(s, Len(s) - i), i + 1,
                        RemovePrefix(s, i + 1), TRUE)
         ELSE SplitLoop(s, i + 1, value, hasValue)

\* Lines 117-127 with the loop left out: the token is never split.
SplitValue_noSplit(s) == [name |-> s, value |-> <<>>, hasValue |-> FALSE]

\* Lines 117-127 with the split made at the last "=" of the token.
SplitValue_lastEq(s) ==
    LET eqs == {k \in 2..Len(s) : s[k] = "="}
        k   == CHOOSE x \in eqs : \A y \in eqs : y <= x
    IN IF eqs = {} THEN [name |-> s, value |-> <<>>, hasValue |-> FALSE]
       ELSE [name |-> SubSeq(s, 1, k - 1), value |-> SubSeq(s, k + 1, Len(s)),
             hasValue |-> TRUE]

SplitValue(s) == SplitLoop(s, 1, <<>>, FALSE)

\* Line 133 with the short name left out.
IsHelpName_onlyHelp(name) == name = W_help

\* Line 133.
IsHelpName(name) == name = W_help \/ name = W_h

\* Line 152: the literal handed to a boolean flag written without a value.
BoolDefault == W_true

\* Lines 106-107 and 101-102: one token consumed.
Consumed(n) == n - 1

\* Line 163: the count after the next token is taken as the value.
ValueTaken(n) == n + 1

----------------------------------------------------------------------------
\* Reading argv. Parse is handed argc and a pointer; nothing stops it from
\* reading past the argc tokens it was given. Such a read is undefined
\* behaviour: it faults, or it yields whatever bytes lie there, which stand
\* here as one of the tokens of Garbage. Past MaxOverrun slots the memory
\* is unmapped and the read always faults.

Garbage == {<<"?">>, <<"-", "?">>}

Fault == [fault |-> TRUE, tok |-> <<>>]

Deref(p) ==
    IF p <= Len(argv) THEN {[fault |-> FALSE, tok |-> argv[p]]}
    ELSE IF p - Len(argv) <= MaxOverrun
         THEN {Fault} \cup {[fault |-> FALSE, tok |-> g] : g \in Garbage}
         ELSE {Fault}

\* The locals of a loop iteration, and where in argv its token was read.
Locals(tok, name, value, hasValue) ==
    [at |-> pos, tok |-> tok, name |-> name, value |-> value,
     hasValue |-> hasValue]

NoLocals ==
    [at |-> 0, tok |-> <<>>, name |-> <<>>, value |-> <<>>, hasValue |-> FALSE]

\* What one iteration leaves behind.
Outcome(p, n, q, st, e, c) ==
    [pc |-> p, argc |-> n, pos |-> q, store |-> st, err |-> e, cur |-> c]

\* Lines 145-158: a boolean flag whose setFn returned r.
BoolOutcome(v, sp, tok, n1, p1, r) ==
    Outcome(IF r.fail THEN "idle" ELSE "scan", n1, p1,
            [store EXCEPT ![v] = r.val],
            IF ~r.fail THEN NoResult
            ELSE IF sp.hasValue THEN ErrBadBoolValue(sp.name, sp.value, r.what)
            ELSE ErrBadBoolFlag(sp.name, r.what),
            Locals(tok, sp.name, sp.value, sp.hasValue))

\* Lines 171-176: a flag that takes a value, whose setFn returned r.
ValueOutcome(v, name, tok, value, n2, p2, r) ==
    Outcome(IF r.fail THEN "idle" ELSE "scan", n2, p2,
            [store EXCEPT ![v] = r.val],
            IF r.fail THEN ErrBadValue(name, value, r.what) ELSE NoResult,
            Locals(tok, name, value, TRUE))

\* Lines 142-177, for the flag fl found under sp.name, with one token
\* already consumed (n1 tokens left by count, cursor at p1): rv is what
\* *argv yields if the next token is taken as the value.
ApplyFlag(fl, sp, tok, n1, p1, rv) ==
    IF fl.isBool
    THEN BoolOutcome(fl.var, sp, tok, n1, p1,
                     SetFn(fl.var, store[fl.var],
                           IF sp.hasValue THEN sp.value ELSE BoolDefault))
    ELSE IF sp.hasValue
    THEN ValueOutcome(fl.var, sp.name, tok, sp.value, n1, p1,
                      SetFn(fl.var, store[fl.var], sp.value))
    ELSE IF n1 > 0
    THEN IF rv.fault
         THEN Outcome("crashed", n1, p1, store, NoResult,
                      Locals(tok, sp.name, sp.value, sp.hasValue))
         ELSE ValueOutcome(fl.var, sp.name, tok, rv.tok, ValueTaken(n1),
                           p1 + 1, SetFn(fl.var, store[fl.var], rv.tok))
    ELSE Outcome("idle", n1, p1, store, ErrMissingValue(sp.name),
                 Locals(tok, sp.name, sp.value, sp.hasValue))

\* Lines 129-140 with the test for help and h made before the lookup.
Lookup_helpFirst(sp, tok, n1, p1, rv) ==
    IF IsHelpName(sp.name)
    THEN Outcome("idle", n1, p1, store, ErrHelp,
                 Locals(tok, sp.name, sp.value, sp.hasValue))
    ELSE IF sp.name \in DOMAIN flags
    THEN ApplyFlag(flags[sp.name], sp, tok, n1, p1, rv)
    ELSE Outcome("idle", n1, p1, store, ErrUndefinedFlag(sp.name),
                 Locals(tok, sp.name, sp.value, sp.hasValue))

\* Lines 129-140: the registry lookup of the name split off the token.
Lookup(sp, tok, n1, p1, rv) ==
    IF sp.name \in DOMAIN flags
    THEN ApplyFlag(flags[sp.name], sp, tok, n1, p1, rv)
    ELSE Outcome("idle", n1, p1, store,
                 IF IsHelpName(sp.name) THEN ErrHelp
                 ELSE ErrUndefinedFlag(sp.name),
                 Locals(tok, sp.name, sp.value, sp.hasValue))

\* Lines 106-127: the token is consumed, checked and split.
ScanFlag(tok, body, rv) ==
    IF IsBadSyntax(body)
    THEN Outcome("idle", Consumed(argc), pos + 1, store, ErrBadSyntax(body),
                 Locals(tok, <<>>, <<>>, FALSE))
    ELSE Lookup(SplitValue(body), tok, Consumed(argc), pos + 1, rv)

\* Lines 90-177: one iteration of the flag loop, r being what *argv yields.
Iteration(r, rv) ==
    IF r.fault THEN Outcome("crashed", argc, pos, store, NoResult, cur)
    ELSE IF IsPositional(r.tok)
    THEN Outcome("slurp", argc, pos, store, NoResult,
                 Locals(r.tok, <<>>, <<>>, FALSE))
    ELSE IF IsTerminator(r.tok)
    THEN Outcome("slurp", Consumed(argc), pos + 1, store, NoResult,
                 Locals(r.tok, <<>>, <<>>, FALSE))
    ELSE ScanFlag(r.tok, RemovePrefix(r.tok, NumMinuses(r.tok)), rv)

----------------------------------------------------------------------------
\* The caller's variables before any call.

StoreDefault ==
    [v \in VarIds |->
        IF TypeOf(v).opt THEN <<>> ELSE ValueInit(TypeOf(v).base)]

OldString == <<"o", "l", "d">>

StoreSet ==
    [v \in VarIds |->
        LET x == CASE TypeOf(v).base = "bool" -> TRUE
                   [] TypeOf(v).base = "string" -> OldString
                   [] TypeOf(v).base = "int" -> 7
                   [] OTHER -> 250
        IN IF TypeOf(v).opt THEN <<x>> ELSE x]

\* A fresh FlagSet (lines 72-75) beside the caller's variables.
InitWith(stores) ==
    /\ flags = <<>>
    /\ parsed = FALSE
    /\ args = <<>>
    /\ store \in stores
    /\ argv = <<>>
    /\ argc = 0
    /\ pos = 1
    /\ pc = "idle"
    /\ err = NoResult
    /\ cur = NoLocals
    /\ store0 = store
    /\ args0 = <<>>
    /\ nVar = 0
    /\ nVar0 = 0
    /\ latest = <<>>
    /\ nParse = 0

----------------------------------------------------------------------------
\* The operations.

\* FlagSet::Var(var, name, usage), lines 276-298. The name is a literal of
\* the caller, so the string_view key of the map stays valid.
Var(v, name) ==
    /\ pc = "idle"
    /\ nVar < MaxVarCalls
    /\ flags' = MapInsert(flags, name, MakeFlag(v))
    /\ nVar' = nVar + 1
    /\ latest' = [n \in DOMAIN latest \cup {name} |->
                     IF n = name THEN v ELSE latest[n]]
    /\ UNCHANGED <<parsed, args, store, argv, argc, pos, pc, err, cur,
                   store0, args0, nVar0, nParse>>

\* Parse setting parsed only after the check of line 81.
ParseCall_parsedLate(a) ==
    /\ nParse' = nParse + 1
    /\ parsed' = (parsed \/ Len(a) >= 1)
    /\ argv' = a
    /\ store0' = store
    /\ args0' = args
    /\ nVar0' = nVar
    /\ cur' = NoLocals
    /\ IF Len(a) < 1
       THEN /\ err' = ErrNumArgs
            /\ argc' = Len(a)
            /\ pos' = 1
            /\ pc' = "idle"
       ELSE /\ err' = NoResult
            /\ argc' = Len(a) - 1
            /\ pos' = 2
            /\ pc' = "scan"
    /\ UNCHANGED <<flags, args, store, nVar, latest>>

\* Parse starting from an empty args.
ParseCall_clearsArgs(a) ==
    /\ nParse' = nParse + 1
    /\ parsed' = TRUE
    /\ argv' = a
    /\ store0' = store
    /\ args0' = args
    /\ nVar0' = nVar
    /\ cur' = NoLocals
    /\ IF Len(a) < 1
       THEN /\ err' = ErrNumArgs
            /\ argc' = Len(a)
            /\ pos' = 1
            /\ pc' = "idle"
       ELSE /\ err' = NoResult
            /\ argc' = Len(a) - 1
            /\ pos' = 2
            /\ pc' = "scan"
    /\ args' = <<>>
    /\ UNCHANGED <<flags, store, nVar, latest>>

\* FlagSet::Parse(argc, argv) entered with the vector a and its size:
\* lines 78-87.
ParseCall(a) ==
    /\ nParse' = nParse + 1
    /\ parsed' = TRUE
    /\ argv' = a
    /\ store0' = store
    /\ args0' = args
    /\ nVar0' = nVar
    /\ cur' = NoLocals
    /\ IF Len(a) < 1
       THEN /\ err' = ErrNumArgs
            /\ argc' = Len(a)
            /\ pos' = 1
            /\ pc' = "idle"
       ELSE /\ err' = NoResult
            /\ argc' = Len(a) - 1
            /\ pos' = 2
            /\ pc' = "scan"
    /\ UNCHANGED <<flags, args, store, nVar, latest>>

\* The caller calls Parse with one of the vectors of argvs; again tells
\* whether it parses a FlagSet that was parsed before.
Parse(argvs, again) ==
    /\ pc = "idle"
    /\ nParse < MaxParses
    /\ again \/ nParse = 0
    /\ \E a \in argvs : ParseCall(a)

\* The state an iteration of the flag loop leaves.
Leave(out) ==
    /\ pc' = out.pc
    /\ argc' = out.argc
    /\ pos' = out.pos
    /\ store' = out.store
    /\ err' = out.err
    /\ cur' = out.cur

\* One iteration of while (argc) at line 89.
ScanStep ==
    /\ pc = "scan"
    /\ argc # 0
    /\ \E r \in Deref(pos) : \E rv \in Deref(pos + 1) : Leave(Iteration(r, rv))
    /\ UNCHANGED <<flags, parsed, args, argv, store0, args0, nVar, nVar0,
                   latest, nParse>>

\* The flag loop ends because argc is 0.
ScanDone ==
    /\ pc = "scan"
    /\ argc = 0
    /\ pc' = "slurp"
    /\ UNCHANGED <<flags, parsed, args, store, argv, argc, pos, err, cur,
                   store0, args0, nVar, nVar0, latest, nParse>>

\* One iteration of while (argc) at line 181.
SlurpStep ==
    /\ pc = "slurp"
    /\ argc # 0
    /\ \E r \in Deref(pos) :
          IF r.fault
          THEN /\ pc' = "crashed"
               /\ UNCHANGED <<args, argc, pos>>
          ELSE /\ args' = Append(args, r.tok)
               /\ argc' = argc - 1
               /\ pos' = pos + 1
               /\ pc' = "slurp"
    /\ UNCHANGED <<flags, parsed, store, argv, err, cur, store0, args0,
                   nVar, nVar0, latest, nParse>>

\* Line 187 returning an error after the positionals were collected.
ParseReturn_error ==
    /\ pc = "slurp"
    /\ argc = 0
    /\ pc' = "idle"
    /\ err' = ErrHelp
    /\ UNCHANGED <<flags, parsed, args, store, argv, argc, pos, cur,
                   store0, args0, nVar, nVar0, latest, nParse>>

\* return {} at line 187.
ParseReturn ==
    /\ pc = "slurp"
    /\ argc = 0
    /\ pc' = "idle"
    /\ err' = NoError
    /\ UNCHANGED <<flags, parsed, args, store, argv, argc, pos, cur,
                   store0, args0, nVar, nVar0, latest, nParse>>

----------------------------------------------------------------------------
\* Argument vectors and tokens.

\* argv[0], the program name.
Prog == <<"p">>

\* The vectors a caller may hand to Parse: the empty one (argc = 0), and the
\* program name followed by up to n tokens of T.
Argvs(T, n) ==
    {<<>>} \cup {<<Prog>> \o t : t \in UNION {[1..k -> T] : k \in 0..n}}

\* -name, --name and their forms with an inline value.
Short(name) == <<"-">> \o name
Long(name) == <<"-", "-">> \o name
WithValue(flag, value) == flag \o <<"=">> \o value

N_s == <<"s">>
N_b == <<"b">>
T_a == <<"a">>
T_dash == <<"-">>
T_terminator == <<"-", "-">>

\* Spec: the shape of the command line. Flags s and b are registered, on a
\* string and a boolean variable in either order.
ShapeVars == {"s", "b"}
ShapeNames == {N_s, N_b}
ShapeTokens ==
    {Short(N_s), WithValue(Long(N_s), T_a), Short(N_b),
     T_terminator, T_dash, T_a}

ShapeArgvs == Argvs(ShapeTokens, MaxArgs)

Init == InitWith({StoreDefault})

Next ==
    \/ \E v \in ShapeVars, n \in ShapeNames : Var(v, n)
    \/ Parse(ShapeArgvs, FALSE)
    \/ ScanStep
    \/ ScanDone
    \/ SlurpStep
    \/ ParseReturn

Spec == Init /\ [][Next]_vars

----------------------------------------------------------------------------
\* SpecConv: the converters of the numeric, string and optional variables.
\* One flag x is registered on any of them; the caller's variables start
\* at their defaults or at other values.

N_x == <<"x">>

V_empty == <<>>
V_1 == <<"1">>
V_minus1 == <<"-", "1">>
V_plus1 == <<"+", "1">>
V_1x == <<"1", "x">>
V_abc == <<"a", "b", "c">>
V_1_4 == <<"1", ".", "4">>
V_tooBig == <<"2", "1", "4", "7", "4", "8", "3", "6", "4", "8">>

ConvValues ==
    {V_empty, V_1, V_minus1, V_plus1, V_1x, V_abc, V_1_4, V_tooBig}

ConvVars == {"i", "f", "d", "s", "oi", "od"}

ConvTokens ==
    {WithValue(Short(N_x), v) : v \in ConvValues} \cup {Short(N_x), T_a}

ConvArgvs == Argvs(ConvTokens, MaxConvArgs)

InitConv == InitWith({StoreDefault, StoreSet})

NextConv ==
    \/ \E v \in ConvVars : Var(v, N_x)
    \/ Parse(ConvArgvs, FALSE)
    \/ ScanStep
    \/ ScanDone
    \/ SlurpStep
    \/ ParseReturn

SpecConv == InitConv /\ [][NextConv]_vars

----------------------------------------------------------------------------
\* SpecSyntax: malformed tokens, the help names and names that are not
\* registered. The names h, help and u may be registered, on a boolean or
\* a string variable.

N_u == <<"u">>
T_3dash == <<"-", "-", "-">>
T_4dash == <<"-", "-", "-", "-">>
T_2dashEq == <<"-", "-", "=">>

HelpTokens == {Short(W_h), Long(W_h), Short(W_help), Long(W_help)}

SyntaxVars == {"b", "s"}
\* A name and a value that hold an "=".
N_u_eq_a == <<"u", "=", "a">>
V_a_eq_b == <<"a", "=", "b">>
V_b == <<"b">>

SyntaxNames == {W_h, W_help, N_u, N_u_eq_a}
SyntaxTokens ==
    HelpTokens \cup
    {T_3dash, T_4dash, T_2dashEq, T_terminator, T_a,
     Short(N_u), WithValue(Long(N_u), T_a), WithValue(Short(N_u), V_a_eq_b)}

SyntaxArgvs == Argvs(SyntaxTokens, MaxSyntaxArgs)

NextSyntax ==
    \/ \E v \in SyntaxVars, n \in SyntaxNames : Var(v, n)
    \/ Parse(SyntaxArgvs, FALSE)
    \/ ScanStep
    \/ ScanDone
    \/ SlurpStep
    \/ ParseReturn

SpecSyntax == Init /\ [][NextSyntax]_vars

----------------------------------------------------------------------------
\* SpecBool: the flag b, registered on a boolean variable or on a string
\* variable, written alone or with an inline value; the caller's variables
\* start at their defaults or at other values.

V_True == <<"T", "r", "u", "e">>
V_0 == <<"0">>

BoolValues ==
    {W_true, W_t, W_yes, W_y, W_false, W_f, W_no, W_n, V_empty, V_True,
     V_0, V_abc}

BoolVars == {"b", "s"}

BoolTokens ==
    {WithValue(Short(N_b), v) : v \in BoolValues} \cup
    {Short(N_b), Long(N_b), WithValue(Long(N_b), W_no), T_a}

BoolArgvs == Argvs(BoolTokens, MaxBoolArgs)

NextBool ==
    \/ \E v \in BoolVars : Var(v, N_b)
    \/ Parse(BoolArgvs, FALSE)
    \/ ScanStep
    \/ ScanDone
    \/ SlurpStep
    \/ ParseReturn

SpecBool == InitConv /\ [][NextBool]_vars

----------------------------------------------------------------------------
\* SpecAgain: one FlagSet parsed more than once, with Var calls before and
\* between the Parse calls. The flag s is registered on a boolean or on a
\* string variable.

AgainVars == {"b", "s"}

AgainTokens == {T_a, Short(N_s), WithValue(Short(N_s), T_a)}

AgainArgvs == Argvs(AgainTokens, MaxAgainArgs)

NextAgain ==
    \/ \E v \in AgainVars : Var(v, N_s)
    \/ Parse(AgainArgvs, TRUE)
    \/ ScanStep
    \/ ScanDone
    \/ SlurpStep
    \/ ParseReturn

SpecAgain == Init /\ [][NextAgain]_vars

----------------------------------------------------------------------------
\* Claims checked under Spec.

\* The Parse call of the run has ended, by returning or by a fault, and no
\* Var call was made since it began: flags is the registry it used.
Ended == nParse = 1 /\ pc \in {"idle", "crashed"} /\ nVar = nVar0

\* The Parse call of the run has returned.
Returned == nParse = 1 /\ pc = "idle" /\ nVar = nVar0

\* C1: for a registered string flag s written as "-s" and followed by at
\* least one more token, Parse takes the next token as the value and
\* consumes it: with only positional tokens after the value, Parse returns
\* no error, the variable holds the value token, and Args() gains exactly
\* the tokens after the value.
C1_NextTokenValueConsumed ==
    (/\ Ended
     /\ Len(argv) >= 3
     /\ argv[2] = Short(N_s)
     /\ N_s \in DOMAIN flags
     /\ flags[N_s].var = "s"
     /\ (Len(argv) >= 4 => IsPositional(argv[4])))
    => /\ pc = "idle"
       /\ err = NoError
       /\ store["s"] = argv[3]
       /\ args = args0 \o SubSeq(argv, 4, Len(argv))

\* C2: after two Var calls for the same name, the second binding is the
\* active one: Parse of "--s=a" converts into the variable of the latest
\* Var call for s, under the boolean marker of that variable's type, and
\* leaves every other variable as it was.
C2_SecondBindingActive ==
    (/\ Returned
     /\ argv = <<Prog, WithValue(Long(N_s), T_a)>>
     /\ N_s \in DOMAIN latest)
    => /\ flags[N_s].isBool = (TypeOf(latest[N_s]).base = "bool")
       /\ store[latest[N_s]] = SetFn(latest[N_s], store0[latest[N_s]], T_a).val
       /\ \A w \in VarIds \ {latest[N_s]} : store[w] = store0[w]

\* C6: when "--" is met while scanning flags it is consumed and scanning
\* stops: Parse returns no error and Args() gains exactly the tokens after
\* the "--", in order, whatever flags came before it.
C6_TerminatorEndsScanning ==
    (Ended /\ cur.tok = T_terminator)
    => /\ pc = "idle"
       /\ err = NoError
       /\ args = args0 \o SubSeq(argv, cur.at + 1, Len(argv))

\* C7: the first token met while scanning flags that is shorter than two
\* characters or does not begin with "-" ends scanning: Parse returns no
\* error and Args() gains exactly that token and the tokens after it, in
\* order.
C7_PositionalEndsScanning ==
    (Ended /\ cur.at >= 2 /\ cur.at <= Len(argv) /\ IsPositional(cur.tok))
    => /\ pc = "idle"
       /\ err = NoError
       /\ args = args0 \o SubSeq(argv, cur.at, Len(argv))

----------------------------------------------------------------------------
\* Claims checked under SpecConv.

\* The whole of v is a decimal integer, signed by a minus or not, that an
\* int can hold.
IsDecimalInt(v) ==
    LET neg == Len(v) >= 1 /\ v[1] = "-"
        i0  == IF neg THEN 2 ELSE 1
    IN /\ Len(v) >= i0
       /\ \A k \in i0..Len(v) : IsDigit(v[k])
       /\ ~Accumulate(v, i0, Len(v) + 1, neg, 0).overflow

\* C3: when Parse returns BadValue, the variable bound to the failing flag
\* holds the value it had before the Parse call.
C3_FailedConversionKeepsValue ==
    (Returned /\ err.type = "BadValue")
    => store[flags[cur.name].var] = store0[flags[cur.name].var]

\* C4: with flag x bound to an int, Parse of "-x=v" returns no error exactly
\* when the whole of v is a decimal integer in the range of int, and
\* BadValue for every other v.
C4_IntAcceptsExactlyIntegers ==
    \A v \in ConvValues :
        (/\ Returned
         /\ argv = <<Prog, WithValue(Short(N_x), v)>>
         /\ N_x \in DOMAIN flags
         /\ flags[N_x].var = "i")
        => /\ IsDecimalInt(v) => err = NoError
           /\ ~IsDecimalInt(v) => err.type = "BadValue"

----------------------------------------------------------------------------
\* Claims checked under SpecSyntax. cur.tok is the token the flag loop read
\* last in the current (or last) Parse call.

\* tok is made of dashes only.
AllDashes(tok) == \A k \in 1..Len(tok) : tok[k] = "-"

\* Parse returned an error of the given type.
Failed(type) == pc = "idle" /\ err.type = type

\* C5 as stated: every token of two or more dashes and nothing else, and the
\* token "--=", met while scanning flags, makes Parse fail with BadSyntax.
C5_TwoOrMoreDashesBadSyntax ==
    ((AllDashes(cur.tok) /\ Len(cur.tok) >= 2) \/ cur.tok = T_2dashEq)
    => Failed("BadSyntax")

\* C5 as amended: every token of three or more dashes and nothing else, and
\* the token "--=", met while scanning flags, makes Parse fail with
\* BadSyntax; the token of exactly two dashes is the terminator and ends
\* scanning without an error.
C5_ThreeOrMoreDashesBadSyntax ==
    /\ ((AllDashes(cur.tok) /\ Len(cur.tok) >= 3) \/ cur.tok = T_2dashEq)
       => Failed("BadSyntax")
    /\ cur.tok = T_terminator => ~Failed("BadSyntax")

\* A token of four dashes was met and Parse returned BadSyntax.
C5_Witness == cur.tok = T_4dash /\ Failed("BadSyntax") /\ Len(argv) = 3

\* C8: with neither h nor help registered, a token -h, --h, -help or --help
\* met while scanning flags makes Parse return Help with an empty message,
\* whatever tokens follow it.
C8_HelpWhenUnregistered ==
    (/\ cur.tok \in HelpTokens
     /\ nVar = nVar0
     /\ W_h \notin DOMAIN flags
     /\ W_help \notin DOMAIN flags)
    => pc = "idle" /\ err = ErrHelp

\* --help was met with a "--" separator after it, and Parse returned Help.
C8_Witness ==
    /\ argv = <<Prog, Long(W_help), T_terminator>>
    /\ cur.tok = Long(W_help)
    /\ N_u \in DOMAIN flags
    /\ err = ErrHelp

\* The token is a flag by the grammar: it starts with one or two dashes,
\* is not "--", and what follows the dashes starts with neither "-" nor "=".
FlagBody(tok) == RemovePrefix(tok, IF tok[2] = "-" THEN 2 ELSE 1)

IsFlagToken(tok) ==
    /\ Len(tok) >= 2
    /\ tok[1] = "-"
    /\ tok # T_terminator
    /\ FlagBody(tok)[1] \notin {"-", "="}

\* The flag name of a flag token: the part after the dashes and before the
\* first "=" that follows the first character of the name.
NameOf(tok) ==
    LET body == FlagBody(tok)
        eqs  == {k \in 2..Len(body) : body[k] = "="}
    IN IF eqs = {} THEN body
       ELSE SubSeq(body, 1, (CHOOSE k \in eqs : \A j \in eqs : k <= j) - 1)

\* C9: a flag token met while scanning whose name is not registered and is
\* neither help nor h makes Parse fail with UndefinedFlag, the message
\* naming the flag.
C9_UndefinedFlag ==
    (/\ IsFlagToken(cur.tok)
     /\ nVar = nVar0
     /\ NameOf(cur.tok) \notin DOMAIN flags
     /\ NameOf(cur.tok) \notin {W_h, W_help})
    => pc = "idle" /\ err = ErrUndefinedFlag(NameOf(cur.tok))

\* --u=a was met with h registered and u not, and Parse returned
\* UndefinedFlag.
C9_Witness ==
    /\ cur.tok = WithValue(Long(N_u), T_a)
    /\ W_h \in DOMAIN flags
    /\ N_u \notin DOMAIN flags
    /\ nVar = nVar0
    /\ Failed("UndefinedFlag")

\* The positions of the "=" characters of a flag token's body that follow
\* its first character.
EqsOf(tok) == {k \in 2..Len(FlagBody(tok)) : FlagBody(tok)[k] = "="}

FirstEq(tok) == CHOOSE k \in EqsOf(tok) : \A j \in EqsOf(tok) : k <= j

LastEq(tok) == CHOOSE k \in EqsOf(tok) : \A j \in EqsOf(tok) : j <= k

\* The name and the inline value the flag loop holds are the parts of the
\* token's body before and after position k.
SplitAt(tok, k) ==
    /\ cur.hasValue
    /\ cur.name = SubSeq(FlagBody(tok), 1, k - 1)
    /\ cur.value = SubSeq(FlagBody(tok), k + 1, Len(FlagBody(tok)))

\* C13 as stated: a flag token with more than one "=" after its first name
\* character is split at its last "=".
C13_SplitAtLastEq ==
    (IsFlagToken(cur.tok) /\ Cardinality(EqsOf(cur.tok)) > 1)
    => SplitAt(cur.tok, LastEq(cur.tok))

\* C13: a flag token with more than one "=" after its first name character
\* is split at its first "=": the name looked up is what precedes it, and
\* the inline value is everything after it, later "=" characters included.
C13_SplitAtFirstEq ==
    (IsFlagToken(cur.tok) /\ Cardinality(EqsOf(cur.tok)) > 1)
    => SplitAt(cur.tok, FirstEq(cur.tok))

\* -u=a=b was parsed with u registered on a string and u=a registered on a
\* boolean: the string holds a=b and the boolean is untouched.
C13_Witness ==
    /\ argv = <<Prog, WithValue(Short(N_u), V_a_eq_b)>>
    /\ cur.tok = WithValue(Short(N_u), V_a_eq_b)
    /\ nVar = nVar0
    /\ N_u \in DOMAIN flags
    /\ flags[N_u].var = "s"
    /\ N_u_eq_a \in DOMAIN flags
    /\ store["s"] = V_a_eq_b
    /\ store["b"] = FALSE
    /\ Returned
    /\ err = NoError

----------------------------------------------------------------------------
\* Claims checked under SpecBool.

\* The flag loop is about to read a token of argv.
AtToken == pc = "scan" /\ argc # 0 /\ pos <= Len(argv)

\* The iteration consumed its token and nothing else, and the loop goes on
\* with the token after it.
OnlyTokenConsumed == pos' = pos + 1 /\ argc' = argc - 1 /\ pc' = "scan"

\* C10: with b registered on a boolean variable, a token -b or --b, with or
\* without an inline value, consumes itself only. Alone, or with an inline
\* value that is empty or one of true, t, yes, y, it sets the variable to
\* TRUE; with one of false, f, no, n it sets it to FALSE; with any other
\* inline value Parse fails with BadValue and the variable keeps its value.
\* Every step that reads no such token leaves the variable as it is.
C10_BoolFlag ==
    [][(N_b \in DOMAIN flags /\ flags[N_b].isBool)
       => LET v == flags[N_b].var
              tok == argv[pos]
              inline == NameOf(tok) # FlagBody(tok)
              value == RemovePrefix(FlagBody(tok), Len(NameOf(tok)) + 1)
          IN IF AtToken /\ IsFlagToken(tok) /\ NameOf(tok) = N_b
             THEN IF ~inline \/ value \in {<<>>, W_true, W_t, W_yes, W_y}
                  THEN /\ store' = [store EXCEPT ![v] = TRUE]
                       /\ OnlyTokenConsumed
                  ELSE IF value \in {W_false, W_f, W_no, W_n}
                  THEN /\ store' = [store EXCEPT ![v] = FALSE]
                       /\ OnlyTokenConsumed
                  ELSE /\ store' = store
                       /\ pc' = "idle"
                       /\ err'.type = "BadValue"
             ELSE store'[v] = store[v]]_vars

\* A variable that held TRUE was set to FALSE by -b=no and the parse went
\* on: the token after it, a bare -b, set it to TRUE again.
C10_Witness ==
    /\ argv = <<Prog, WithValue(Short(N_b), W_no), Short(N_b)>>
    /\ N_b \in DOMAIN flags
    /\ flags[N_b].isBool
    /\ store0["b"] = TRUE
    /\ cur.tok = Short(N_b)
    /\ cur.at = 3
    /\ store["b"] = TRUE
    /\ Returned
    /\ err = NoError

----------------------------------------------------------------------------
\* Claims checked under SpecAgain.

\* C11: Parsed() is false on a fresh FlagSet and under Var calls, true from
\* the first Parse call on whatever that call returns, and never false
\* again: it is true exactly when Parse has been called.
C11_ParsedIffParseCalled == parsed <=> nParse > 0

\* A second Parse call was made after a Var call and returned NumArgs, and
\* Parsed() is true.
C11_Witness ==
    /\ nParse = 2
    /\ nVar = 1
    /\ pc = "idle"
    /\ err.type = "NumArgs"
    /\ parsed

\* C12: a Parse call given an argument count below 1 returns NumArgs at
\* once: no bound variable and no element of Args() differs from before
\* the call.
C12_NumArgs ==
    (nParse >= 1 /\ argv = <<>>)
    => /\ pc = "idle"
       /\ err.type = "NumArgs"
       /\ store = store0
       /\ args = args0

\* A FlagSet that holds positionals from a first Parse was parsed again
\* with no arguments.
C12_Witness ==
    /\ nParse = 2
    /\ argv = <<>>
    /\ args0 = <<T_a>>
    /\ args = <<T_a>>
    /\ store["b"] = TRUE
    /\ err.type = "NumArgs"

\* C19: a Parse call that has returned an Error, of whatever kind, has
\* left Args() as it was before the call.
C19_ErrorLeavesArgs ==
    (nParse >= 1 /\ pc = "idle" /\ err.type \notin {"None", "NoResult"})
    => args = args0

\* A second Parse met a bad boolean value with a positional after it and
\* returned BadValue: Args() holds the positional of the first call only.
C19_Witness ==
    /\ nParse = 2
    /\ pc = "idle"
    /\ argv = <<Prog, WithValue(Short(N_s), T_a), T_a>>
    /\ err.type = "BadValue"
    /\ args0 = <<T_a>>
    /\ args = <<T_a>>

----------------------------------------------------------------------------
\* Further claims checked under Spec.

\* The flag loop is about to read a token that is a flag without an inline
\* value, registered on a variable that is not boolean.
AtValueFlag ==
    /\ AtToken
    /\ IsFlagToken(argv[pos])
    /\ EqsOf(argv[pos]) = {}
    /\ FlagBody(argv[pos]) \in DOMAIN flags
    /\ ~flags[FlagBody(argv[pos])].isBool

\* C14: when a registered non-boolean flag without an inline value is read
\* as the last token of the argument vector, Parse returns MissingValue and
\* no converter runs, whatever flags preceded it.
C14_LastTokenMissingValue ==
    [][(AtValueFlag /\ pos = Len(argv))
       => /\ pc' = "idle"
          /\ err' = ErrMissingValue(FlagBody(argv[pos]))
          /\ store' = store]_vars

\* C18: throughout a Parse call the count of tokens still to be read is
\* the number of tokens between the cursor and the end of the argument
\* vector, and no read of argv goes past its end.
C18_CountMatchesTokensLeft ==
    /\ pc # "crashed"
    /\ pos <= Len(argv) + 1
    /\ pc \in {"scan", "slurp"} => argc = (Len(argv) + 1) - pos

----------------------------------------------------------------------------
\* Further claims checked under SpecConv.

\* C15: Parse stops at the first failing token. When the step that returns
\* the error comes after a flag that was processed successfully, the
\* variable bound to that flag keeps the value it was assigned, and nothing
\* is appended to Args(); after the return no token is processed: the
\* variables, Args() and the one Error returned stay as they are.
C15_StopsAtFirstFailure ==
    [][/\ (pc = "scan" /\ pc' = "idle")
          => /\ err'.type \notin {"None", "NoResult"}
             /\ args' = args
             /\ cur.name \in DOMAIN flags
                => store'[flags[cur.name].var] = store[flags[cur.name].var]
       /\ (pc = "idle" /\ nParse' = nParse)
          => /\ err' = err
             /\ store' = store
             /\ args' = args]_vars

\* The flag loop is about to read a flag token with an inline value whose
\* name is registered on an optional variable.
AtOptionalFlag ==
    /\ AtToken
    /\ IsFlagToken(argv[pos])
    /\ EqsOf(argv[pos]) # {}
    /\ NameOf(argv[pos]) \in DOMAIN flags
    /\ TypeOf(flags[NameOf(argv[pos])].var).opt

\* C16: for a flag registered on an optional variable the converter of the
\* underlying type runs on a value-initialised temporary. When it succeeds
\* the optional holds the converted value; when it fails Parse returns
\* BadValue and the optional is as it was, empty or holding a value.
C16_OptionalCommitsOnSuccess ==
    [][AtOptionalFlag
       => LET v == flags[NameOf(argv[pos])].var
              body == FlagBody(argv[pos])
              value == SubSeq(body, FirstEq(argv[pos]) + 1, Len(body))
              r == MakeSetFn(TypeOf(v).base, ValueInit(TypeOf(v).base), value)
          IN IF r.fail
             THEN /\ pc' = "idle"
                  /\ err'.type = "BadValue"
                  /\ store' = store
             ELSE /\ pc' = "scan"
                  /\ store' = [store EXCEPT ![v] = <<r.val>>]]_vars

\* An optional<double> that held 2.5 was given -x=abc: Parse returned
\* BadValue and the optional still holds 2.5.
C16_Witness ==
    /\ argv = <<Prog, WithValue(Short(N_x), V_abc)>>
    /\ nVar = nVar0
    /\ N_x \in DOMAIN flags
    /\ flags[N_x].var = "od"
    /\ store0["od"] = <<250>>
    /\ store["od"] = <<250>>
    /\ Returned
    /\ err.type = "BadValue"

----------------------------------------------------------------------------
\* Further claims checked under SpecSyntax.

\* C17: a token -h, --h, -help or --help whose name is registered is handled
\* as that flag and never makes Parse return Help. A boolean flag is set to
\* TRUE and consumes its token only; a string flag followed by another token
\* takes that token as its value.
C17_RegisteredHelpIsOrdinary ==
    [][(AtToken /\ argv[pos] \in HelpTokens
        /\ FlagBody(argv[pos]) \in DOMAIN flags)
       => LET fl == flags[FlagBody(argv[pos])]
          IN /\ err'.type # "Help"
             /\ fl.isBool
                => /\ store' = [store EXCEPT ![fl.var] = TRUE]
                   /\ OnlyTokenConsumed
             /\ (~fl.isBool /\ pos < Len(argv))
                => /\ store' = [store EXCEPT ![fl.var] = argv[pos + 1]]
                   /\ pos' = pos + 2
                   /\ pc' = "scan"]_vars

\* --help, registered on a string, took the token after it as its value.
C17_Witness ==
    /\ argv = <<Prog, Long(W_help), T_a>>
    /\ cur.tok = Long(W_help)
    /\ nVar = nVar0
    /\ W_help \in DOMAIN flags
    /\ flags[W_help].var = "s"
    /\ store["s"] = T_a
    /\ err.type # "Help"

====
